---- MODULE Spec2Model ----
(***************************************************************************)
(* Model of the Solana Blinks SDK core:                                    *)
(*   - lib/connection: round-robin RPC endpoint pool, the process-wide     *)
(*     cached connection and the endpoint health checks;                   *)
(*   - lib/blinks: parseBlinkUrl and BlinksExecutor (getMetadata,          *)
(*     getTransaction, decodeTransaction, signAndSend, simulate, inspect); *)
(*   - cli: the execute-type commands that drive the executor.             *)
(* Strings that the code parses (environment values, blink references      *)
(* and URLs) are sequences of one-character strings; other strings are     *)
(* TLA+ strings.                                                           *)
(***************************************************************************)
EXTENDS Integers, Sequences, FiniteSets, TLC

VARIABLES
    env,                \* process.env: SOLANA_RPC_URLS and SOLANA_RPC_URL
    rpcUrls,            \* module variable rpcUrls
    currentRpcIndex,    \* module variable currentRpcIndex (0-based)
    defaultConnection,  \* module variable defaultConnection (Null or a connection)
    connCount,          \* number of Connection objects constructed so far
    allocs,             \* history: URLs returned by getNextRpcUrl, in call order
    poolRet,            \* history: what the last pool operation returned
    poolCalls,          \* history: number of pool operations called so far
    cacheHist,          \* history: the first round-robin pick of a getConnection()
                        \* and whether getConnection(url) was ever called
    health,             \* the checkAllRpcs call in progress, if any
    mode,               \* who drives the executor: "cli", "lib" or "none"
    rpc,                \* the program's --rpc option (Unset when not given)
    dryRun,             \* the command's --dry-run option
    cliPc,              \* position of the CLI command's action handler
    connection,         \* BlinksExecutor.connection (Null before construction)
    op,                 \* executor method whose promise is pending, or "none"
    pc,                 \* the await at which that method is suspended
    tx,                 \* signAndSend/simulate local: the decoded transaction
    signature,          \* signAndSend local: the broadcast signature
    ret,                \* how the last executor method call settled
    inv,                \* history: number of executor method calls so far
    log,                \* history: every call issued, with its outcome
    out                 \* history: what the CLI command printed

poolVars == <<env, rpcUrls, currentRpcIndex, defaultConnection, connCount,
              allocs, poolRet, poolCalls, cacheHist, health>>

driverVars == <<mode, rpc, dryRun, cliPc, connection, out>>

execVars == <<mode, rpc, dryRun, cliPc, connection, op, pc, tx, signature, ret,
              inv, log, out>>

vars == <<env, rpcUrls, currentRpcIndex, defaultConnection, connCount,
          allocs, poolRet, poolCalls, cacheHist, health, mode, rpc, dryRun, cliPc,
          connection, op, pc, tx, signature, ret, inv, log, out>>

----------------------------------------------------------------------------
(* Bounds *)

MaxEnvLen == 5          \* longest SOLANA_RPC_URLS value, in characters
MaxPoolCalls == 4       \* pool operations per behaviour
MaxLibCalls == 2        \* executor method calls per behaviour of a library user
MaxOpsCalls == 2        \* executor method calls of a program that tries each method

----------------------------------------------------------------------------
(* Strings as character sequences *)

Chars == {"a", "b", ",", " "}

StringsUpTo(n) == UNION {[1..k -> Chars] : k \in 0..n}

Null == [null |-> TRUE]

Unset == [set |-> FALSE, val |-> <<>>]

EnvSet(s) == [set |-> TRUE, val |-> s]

\* JavaScript truthiness of process.env.X: set and not the empty string
Truthy(e) == e.set /\ Len(e.val) > 0

\* String.prototype.split(',')
RECURSIVE SplitFrom(_, _, _, _)
SplitFrom(s, i, cur, acc) ==
    IF i > Len(s) THEN Append(acc, cur)
    ELSE IF s[i] = "," THEN SplitFrom(s, i + 1, <<>>, Append(acc, cur))
    ELSE SplitFrom(s, i + 1, Append(cur, s[i]), acc)

Split(s) == SplitFrom(s, 1, <<>>, <<>>)

\* String.prototype.trim()
RECURSIVE TrimLeft(_)
TrimLeft(s) ==
    IF Len(s) > 0 /\ s[1] = " " THEN TrimLeft(Tail(s)) ELSE s

RECURSIVE TrimRight(_)
TrimRight(s) ==
    IF Len(s) > 0 /\ s[Len(s)] = " " THEN TrimRight(SubSeq(s, 1, Len(s) - 1))
    ELSE s

Trim(s) == TrimRight(TrimLeft(s))

\* Array.prototype.filter(Boolean) on an array of strings
RECURSIVE FilterNonEmpty(_)
FilterNonEmpty(xs) ==
    IF xs = <<>> THEN <<>>
    ELSE IF Len(Head(xs)) > 0 THEN <<Head(xs)>> \o FilterNonEmpty(Tail(xs))
    ELSE FilterNonEmpty(Tail(xs))

MapTrim(xs) == [i \in 1..Len(xs) |-> Trim(xs[i])]

----------------------------------------------------------------------------
(* lib/connection *)

\* RPC_ENDPOINTS.mainnet
MainnetUrl == <<"m">>

\* initRpcUrls() that prefers SOLANA_RPC_URL to SOLANA_RPC_URLS
InitRpcUrlsSingleFirst(cur, e) ==
    IF Len(cur) > 0 THEN cur
    ELSE
        LET single == IF Truthy(e.SOLANA_RPC_URL)
                      THEN <<e.SOLANA_RPC_URL.val>>
                      ELSE cur
            multi == IF Len(single) = 0 /\ Truthy(e.SOLANA_RPC_URLS)
                     THEN FilterNonEmpty(MapTrim(Split(e.SOLANA_RPC_URLS.val)))
                     ELSE single
        IN IF Len(multi) = 0 THEN <<MainnetUrl>> ELSE multi

\* initRpcUrls() that falls back to the default only when SOLANA_RPC_URLS is
\* not set at all
InitRpcUrlsNoFallback(cur, e) ==
    IF Len(cur) > 0 THEN cur
    ELSE IF Truthy(e.SOLANA_RPC_URLS)
    THEN FilterNonEmpty(MapTrim(Split(e.SOLANA_RPC_URLS.val)))
    ELSE IF Truthy(e.SOLANA_RPC_URL) THEN <<e.SOLANA_RPC_URL.val>>
    ELSE <<MainnetUrl>>

\* initRpcUrls() that reads the environment on every call
InitRpcUrlsUncached(cur, e) ==
    LET multi == IF Truthy(e.SOLANA_RPC_URLS)
                 THEN FilterNonEmpty(MapTrim(Split(e.SOLANA_RPC_URLS.val)))
                 ELSE <<>>
        single == IF Len(multi) = 0 /\ Truthy(e.SOLANA_RPC_URL)
                  THEN <<e.SOLANA_RPC_URL.val>>
                  ELSE multi
    IN IF Len(single) = 0 THEN <<MainnetUrl>> ELSE single

\* initRpcUrls(): the list it leaves in rpcUrls (and returns)
InitRpcUrls(cur, e) ==
    IF Len(cur) > 0 THEN cur
    ELSE
        LET multi == IF Truthy(e.SOLANA_RPC_URLS)
                     THEN FilterNonEmpty(MapTrim(Split(e.SOLANA_RPC_URLS.val)))
                     ELSE cur
            single == IF Len(multi) = 0 /\ Truthy(e.SOLANA_RPC_URL)
                      THEN <<e.SOLANA_RPC_URL.val>>
                      ELSE multi
        IN IF Len(single) = 0 THEN <<MainnetUrl>> ELSE single

\* what reading urls[i] gives when the array has no entry i
UndefinedUrl == <<"undefined">>

\* the cursor after a remainder by zero (no array index)
NaN == -1

\* getNextRpcUrl() with the cursor advanced before the read
NextRpcSkip(cur, idx, e) ==
    LET urls == InitRpcUrls(cur, e)
    IN [url |-> urls[((idx + 1) % Len(urls)) + 1], urls |-> urls,
        index |-> (idx + 1) % Len(urls)]

\* getNextRpcUrl(): the URL returned, and rpcUrls and currentRpcIndex after
\* the call; reading past the end of an array gives undefined, and x % 0 NaN
NextRpc(cur, idx, e) ==
    LET urls == InitRpcUrls(cur, e)
    IN [url |-> IF idx + 1 \in DOMAIN urls THEN urls[idx + 1] ELSE UndefinedUrl,
        urls |-> urls,
        index |-> IF Len(urls) = 0 THEN NaN ELSE (idx + 1) % Len(urls)]

\* new Connection(url, ...)
NewConnection(url, n) == [id |-> n + 1, rpcEndpoint |-> url]

\* getNextRpcUrl() called directly
GetNextRpcUrl ==
    /\ poolCalls < MaxPoolCalls
    /\ LET r == NextRpc(rpcUrls, currentRpcIndex, env)
       IN /\ rpcUrls' = r.urls
          /\ currentRpcIndex' = r.index
          /\ allocs' = Append(allocs, r.url)
          /\ poolRet' = [op |-> "getNextRpcUrl", url |-> r.url]
    /\ poolCalls' = poolCalls + 1
    /\ UNCHANGED <<env, defaultConnection, connCount, cacheHist, health,
                   execVars>>

\* getRpcUrls()
GetRpcUrls ==
    /\ poolCalls < MaxPoolCalls
    /\ rpcUrls' = InitRpcUrls(rpcUrls, env)
    /\ poolRet' = [op |-> "getRpcUrls", urls |-> rpcUrls']
    /\ poolCalls' = poolCalls + 1
    /\ UNCHANGED <<env, currentRpcIndex, defaultConnection, connCount, allocs,
                   cacheHist, health, execVars>>

\* the cache test of getConnection with a new connection made every time
NeedsNewAlways(cached, hasUrl, url) == TRUE

\* the cache test of getConnection comparing the round-robin pick as well
NeedsNewOnAnyDifference(cached, hasUrl, url) ==
    \/ cached = Null
    \/ url # cached.rpcEndpoint

\* the cache test of getConnection:
\* !defaultConnection || (rpcUrl && rpcUrl !== defaultConnection.rpcEndpoint)
NeedsNew(cached, hasUrl, url) ==
    \/ cached = Null
    \/ (hasUrl /\ url # cached.rpcEndpoint)

\* getConnection that asks the round-robin for a URL only when it has to
\* construct a connection
GetConnectionEffectLazy(hasUrl, rpcUrl) ==
    LET r == NextRpc(rpcUrls, currentRpcIndex, env)
        picks == ~hasUrl /\ defaultConnection = Null
        url == IF hasUrl THEN rpcUrl
               ELSE IF picks THEN r.url ELSE defaultConnection.rpcEndpoint
        fresh == NeedsNew(defaultConnection, hasUrl, url)
    IN /\ IF picks
          THEN /\ rpcUrls' = r.urls
               /\ currentRpcIndex' = r.index
               /\ allocs' = Append(allocs, r.url)
          ELSE UNCHANGED <<rpcUrls, currentRpcIndex, allocs>>
       /\ IF fresh
          THEN /\ defaultConnection' = NewConnection(url, connCount)
               /\ connCount' = connCount + 1
          ELSE UNCHANGED <<defaultConnection, connCount>>
       /\ poolRet' = [op |-> "getConnection", hasUrl |-> hasUrl,
                      url |-> url, conn |-> defaultConnection']

\* getConnection(rpcUrl?): the effect on the pool; hasUrl is JavaScript
\* truthiness of the argument
GetConnectionEffect(hasUrl, rpcUrl) ==
    LET r == NextRpc(rpcUrls, currentRpcIndex, env)
        url == IF hasUrl THEN rpcUrl ELSE r.url
        fresh == NeedsNew(defaultConnection, hasUrl, url)
    IN /\ IF hasUrl
          THEN UNCHANGED <<rpcUrls, currentRpcIndex, allocs>>
          ELSE /\ rpcUrls' = r.urls
               /\ currentRpcIndex' = r.index
               /\ allocs' = Append(allocs, r.url)
       /\ IF fresh
          THEN /\ defaultConnection' = NewConnection(url, connCount)
               /\ connCount' = connCount + 1
          ELSE UNCHANGED <<defaultConnection, connCount>>
       /\ poolRet' = [op |-> "getConnection", hasUrl |-> hasUrl,
                      url |-> url, conn |-> defaultConnection']

ExplicitUrls == {<<"a">>, <<"b">>}

\* getConnection() or getConnection(url) called directly
GetConnectionCall ==
    /\ poolCalls < MaxPoolCalls
    /\ \/ GetConnectionEffect(FALSE, <<>>)
       \/ \E u \in ExplicitUrls : GetConnectionEffect(TRUE, u)
    /\ poolCalls' = poolCalls + 1
    /\ UNCHANGED <<env, health, execVars>>

GetConnection ==
    /\ GetConnectionCall
    /\ UNCHANGED cacheHist

NoHist == [firstPick |-> <<>>, explicit |-> FALSE]

\* the same call, with the history of getConnection calls kept
GetConnectionTracked ==
    /\ GetConnectionCall
    /\ cacheHist' =
         IF poolRet'.hasUrl THEN [cacheHist EXCEPT !.explicit = TRUE]
         ELSE IF cacheHist.firstPick = <<>>
         THEN [cacheHist EXCEPT !.firstPick = <<poolRet'.url>>]
         ELSE cacheHist

\* getFreshConnection() that also stores the connection it made in the cache
GetFreshConnectionCached ==
    /\ poolCalls < MaxPoolCalls
    /\ LET r == NextRpc(rpcUrls, currentRpcIndex, env)
       IN /\ rpcUrls' = r.urls
          /\ currentRpcIndex' = r.index
          /\ allocs' = Append(allocs, r.url)
          /\ poolRet' = [op |-> "getFreshConnection",
                         conn |-> NewConnection(r.url, connCount)]
          /\ defaultConnection' = NewConnection(r.url, connCount)
    /\ connCount' = connCount + 1
    /\ poolCalls' = poolCalls + 1
    /\ UNCHANGED <<env, cacheHist, health, execVars>>

\* getFreshConnection()
GetFreshConnection ==
    /\ poolCalls < MaxPoolCalls
    /\ LET r == NextRpc(rpcUrls, currentRpcIndex, env)
       IN /\ rpcUrls' = r.urls
          /\ currentRpcIndex' = r.index
          /\ allocs' = Append(allocs, r.url)
          /\ poolRet' = [op |-> "getFreshConnection",
                         conn |-> NewConnection(r.url, connCount)]
    /\ connCount' = connCount + 1
    /\ poolCalls' = poolCalls + 1
    /\ UNCHANGED <<env, defaultConnection, cacheHist, health, execVars>>

----------------------------------------------------------------------------
(* lib/connection: health checks *)

\* checkAllRpcs not called yet
NoHealth ==
    [phase |-> "idle",
     env |-> [SOLANA_RPC_URLS |-> Unset, SOLANA_RPC_URL |-> Unset],
     urls |-> <<>>, start |-> 0, now |-> 0, inner |-> <<>>, outer |-> <<>>]

\* what a node answers to getSlot: a number
SlotValues == {[t |-> "number", n |-> 7]}

\* what a node answers to getVersion: an object with a 'solana-core' property
VersionValues == {[t |-> "object", core |-> [t |-> "string", s |-> "1.18"]]}

\* v['solana-core']: a property that only an object can have
SolanaCore(v) == IF v.t = "object" THEN v.core ELSE [t |-> "undefined"]

\* what a failed RPC call rejects with: an Error, or some other value
Rejections ==
    {[isError |-> TRUE, message |-> "fetch failed"],
     [isError |-> FALSE, message |-> ""]}

\* a member of a Promise.all that has settled: its position in the array
\* given to Promise.all, whether it fulfilled, and its value or reason
Arrival(i, ok, v) == [index |-> i, ok |-> ok, value |-> v]

\* Promise.all that collects the values in the order they arrive
PromiseAllArrivalOrder(n, arrivals) ==
    IF \E k \in 1..Len(arrivals) : ~arrivals[k].ok
    THEN [settled |-> "rejected",
          reason |-> arrivals[CHOOSE k \in 1..Len(arrivals) :
                                  /\ ~arrivals[k].ok
                                  /\ \A j \in 1..(k - 1) : arrivals[j].ok].value]
    ELSE IF Len(arrivals) = n
    THEN [settled |-> "fulfilled",
          values |-> [i \in 1..n |-> arrivals[i].value]]
    ELSE [settled |-> "pending"]

\* Promise.all over n promises of which `arrivals` have settled, in that
\* order: rejected with the first rejection, fulfilled with the values by
\* position once all n have fulfilled
PromiseAll(n, arrivals) ==
    IF \E k \in 1..Len(arrivals) : ~arrivals[k].ok
    THEN [settled |-> "rejected",
          reason |-> arrivals[CHOOSE k \in 1..Len(arrivals) :
                                  /\ ~arrivals[k].ok
                                  /\ \A j \in 1..(k - 1) : arrivals[j].ok].value]
    ELSE IF Len(arrivals) = n
    THEN [settled |-> "fulfilled",
          values |-> [i \in 1..n |->
                         arrivals[CHOOSE k \in 1..n : arrivals[k].index = i].value]]
    ELSE [settled |-> "pending"]

\* checkConnection without its catch
CheckConnectionRethrow(all) ==
    IF all.settled = "fulfilled"
    THEN [kind |-> "returned",
          value |-> [healthy |-> TRUE, slot |-> all.values[1],
                     version |-> SolanaCore(all.values[2])]]
    ELSE [kind |-> "threw", value |-> all.reason]

\* checkConnection(connection), given how its Promise.all settled
CheckConnection(all) ==
    IF all.settled = "fulfilled"
    THEN [kind |-> "returned",
          value |-> [healthy |-> TRUE, slot |-> all.values[1],
                     version |-> SolanaCore(all.values[2])]]
    ELSE [kind |-> "returned",
          value |-> [healthy |-> FALSE,
                     error |-> IF all.reason.isError THEN all.reason.message
                               ELSE "Unknown error"]]

\* { url, ...health, latencyMs }: later properties override earlier ones
EndpointResult(url, h, latencyMs) ==
    [latencyMs |-> latencyMs] @@ h @@ [url |-> url]

\* checkAllRpcs(), up to its await: every endpoint's getSlot and getVersion
\* are on their way
CheckAllRpcsCall ==
    /\ poolCalls < MaxPoolCalls
    /\ health.phase # "running"
    /\ rpcUrls' = InitRpcUrls(rpcUrls, env)
    /\ health' = [phase |-> "running", env |-> env, urls |-> rpcUrls',
                  start |-> 0, now |-> 0,
                  inner |-> [i \in 1..Len(rpcUrls') |-> <<>>],
                  outer |-> <<>>]
    /\ connCount' = connCount + Len(rpcUrls')
    /\ poolRet' = [op |-> "checkAllRpcs", kind |-> "pending"]
    /\ poolCalls' = poolCalls + 1
    /\ UNCHANGED <<env, currentRpcIndex, defaultConnection, allocs, cacheHist,
                   execVars>>

\* the answers one RPC call can get: position 1 is getSlot, 2 is getVersion
RpcAnswers(c) ==
    {Arrival(c, FALSE, r) : r \in Rejections}
    \cup {Arrival(c, TRUE, v) : v \in IF c = 1 THEN SlotValues ELSE VersionValues}

\* one of the RPC calls of endpoint i settles; checkConnection(i), the
\* callback of endpoint i and checkAllRpcs itself carry on as far as they can
RpcSettle ==
    /\ health.phase \in {"running", "done"}
    /\ \E i \in 1..Len(health.urls), c \in 1..2 :
         /\ \A k \in 1..Len(health.inner[i]) : health.inner[i][k].index # c
         /\ \E a \in RpcAnswers(c) :
              LET inner == Append(health.inner[i], a)
                  now == health.now + 1
                  checked ==
                      /\ PromiseAll(2, health.inner[i]).settled = "pending"
                      /\ PromiseAll(2, inner).settled # "pending"
                  r == CheckConnection(PromiseAll(2, inner))
                  outer ==
                      IF ~checked THEN health.outer
                      ELSE IF r.kind = "returned"
                      THEN Append(health.outer,
                                  Arrival(i, TRUE,
                                          EndpointResult(health.urls[i], r.value,
                                                         now - health.start)))
                      ELSE Append(health.outer, Arrival(i, FALSE, r.value))
                  all == PromiseAll(Len(health.urls), outer)
                  finished == /\ checked
                              /\ health.phase = "running"
                              /\ all.settled # "pending"
              IN /\ health' = [health EXCEPT
                                  !.inner[i] = inner,
                                  !.now = now,
                                  !.outer = outer,
                                  !.phase = IF finished THEN "done" ELSE @]
                 /\ poolRet' =
                      IF ~finished THEN poolRet
                      ELSE IF all.settled = "fulfilled"
                      THEN [op |-> "checkAllRpcs", kind |-> "returned",
                            results |-> all.values]
                      ELSE [op |-> "checkAllRpcs", kind |-> "threw",
                            error |-> all.reason]
    /\ UNCHANGED <<env, rpcUrls, currentRpcIndex, defaultConnection, connCount,
                   allocs, poolCalls, cacheHist, execVars>>

----------------------------------------------------------------------------
(* lib/blinks: BlinksExecutor *)

\* A transaction payload, described by what the two web3.js parsers make of
\* its bytes
Payloads == [versionedOk : BOOLEAN, legacyOk : BOOLEAN]

Threw == [ok |-> FALSE]

Parsed(type) == [ok |-> TRUE, tx |-> [type |-> type]]

\* VersionedTransaction.deserialize(buffer)
VersionedDeserialize(buffer) ==
    IF buffer.versionedOk THEN Parsed("versioned") ELSE Threw

\* Transaction.from(buffer)
TransactionFrom(buffer) ==
    IF buffer.legacyOk THEN Parsed("legacy") ELSE Threw

\* decodeTransaction that hands back an empty legacy transaction when both
\* parsers reject the buffer
DecodeNeverThrows(buffer) ==
    IF VersionedDeserialize(buffer).ok THEN VersionedDeserialize(buffer)
    ELSE Parsed("legacy")

\* decodeTransaction with the two attempts in the other order
DecodeLegacyFirst(buffer) ==
    IF TransactionFrom(buffer).ok THEN TransactionFrom(buffer)
    ELSE VersionedDeserialize(buffer)

\* decodeTransaction(base64Tx): try { versioned } catch { legacy }
DecodeTransaction(buffer) ==
    IF VersionedDeserialize(buffer).ok THEN VersionedDeserialize(buffer)
    ELSE TransactionFrom(buffer)

NoInfo == [k |-> "none"]

NoRet == [op |-> "none", kind |-> "none"]

Returned(o, v) == [op |-> o, kind |-> "returned", value |-> v]

\* the promise of method o rejected with the exception raised by `from`
Thrown(o, from) == [op |-> o, kind |-> "thrown", error |-> from]

\* a log entry: call `c` issued by method call number n of method o
Entry(n, o, c, outcome, info) ==
    [inv |-> n, op |-> o, call |-> c, outcome |-> outcome, info |-> info]

\* what a decodeTransaction log entry records: the buffer and the type of
\* the transaction object returned
Decoded(blinkTx, d) ==
    [buffer |-> blinkTx.transaction,
     type |-> IF d.ok THEN d.tx.type ELSE "none"]

\* the last log entry with its outcome filled in
Settled(l, outcome) ==
    [l EXCEPT ![Len(l)].outcome = outcome]

\* the same, recording the value the call settled with
SettledWith(l, outcome, info) ==
    [l EXCEPT ![Len(l)].outcome = outcome, ![Len(l)].info = info]

\* `await p` that carries on although p rejected
AwaitIgnoreRejection(settled, next) == next

\* `await p`: a rejection is thrown out of the async method, a fulfilment
\* carries on at `next`
Await(settled, next) == IF settled = "rejected" THEN "throw" ELSE next

\* sendRawTransaction options with the legacy branch left without retries
SendOptionsLegacyBare(signedTx) ==
    IF signedTx.type = "versioned"
    THEN [skipPreflight |-> FALSE, maxRetries |-> 3]
    ELSE [skipPreflight |-> TRUE, maxRetries |-> 0]

\* the options of the two sendRawTransaction branches
SendOptions(signedTx) ==
    IF signedTx.type = "versioned"
    THEN [skipPreflight |-> FALSE, maxRetries |-> 3]
    ELSE [skipPreflight |-> FALSE, maxRetries |-> 3]

\* signAndSend that returns once the transaction is broadcast
AfterSendNoWait == "return"

\* what signAndSend does once sendRawTransaction has resolved
AfterSend == "getLatestBlockhash"

\* simulate with the transaction broadcast instead of dry-run
SimulateRpcSend(t) == "sendRawTransaction"

\* the RPC method simulate calls, in both branches of its instanceof test
SimulateRpc(t) ==
    IF t.type = "versioned" THEN "simulateTransaction" ELSE "simulateTransaction"

\* TransactionError values a dry-run or a confirmation can report
NoErr == [t |-> "null"]

TxErrors ==
    {[t |-> "string", s |-> "BlockhashNotFound"],
     [t |-> "object", key |-> "InstructionError", index |-> 0,
      detail |-> "InvalidAccountData"],
     [t |-> "object", key |-> "InstructionError", index |-> 1,
      detail |-> "Custom"]}

Undefined == [is |-> "undefined"]

NullValue == [is |-> "null"]

Some(v) == [is |-> "value", v |-> v]

\* x ?? undefined
OrUndefined(x) == IF x.is = "null" THEN Undefined ELSE x

Quote(s) == "\"" \o s \o "\""

\* JSON.stringify of a TransactionError
JsonStringify(e) ==
    IF e.t = "string" THEN Quote(e.s)
    ELSE "{" \o Quote(e.key) \o ":[" \o ToString(e.index) \o ","
             \o Quote(e.detail) \o "]}"

\* the object simulate returns, with success left true
SimulationResultOptimistic(value) ==
    [success |-> TRUE,
     logs |-> OrUndefined(value.logs),
     error |-> IF value.err.t # "null" THEN JsonStringify(value.err) ELSE Undefined,
     unitsConsumed |-> OrUndefined(value.unitsConsumed)]

\* the object simulate returns for result.value
SimulationResult(value) ==
    [success |-> value.err.t = "null",
     logs |-> OrUndefined(value.logs),
     error |-> IF value.err.t # "null" THEN JsonStringify(value.err) ELSE Undefined,
     unitsConsumed |-> OrUndefined(value.unitsConsumed)]

\* an executor method settles: its promise resolves or rejects with r
Finish(r, l) ==
    /\ op' = "none"
    /\ pc' = "idle"
    /\ ret' = r
    /\ log' = l

\* the method carries on to its next call c and suspends there
Suspend(n, o, c, l, info) ==
    /\ op' = o
    /\ pc' = c
    /\ ret' = NoRet
    /\ log' = Append(l, Entry(n, o, c, "pending", info))

\* String.prototype.startsWith
StartsWith(s, p) == Len(s) >= Len(p) /\ SubSeq(s, 1, Len(p)) = p

\* String.prototype.slice(n)
Slice(s, n) == SubSeq(s, n + 1, Len(s))

BlinkPrefix == <<"b", "l", "i", "n", "k", ":">>

\* parseBlinkUrl that hands the reference on as it is
ParseBlinkUrlNoStrip(blinkUrl) == blinkUrl

\* parseBlinkUrl(blinkUrl)
ParseBlinkUrl(blinkUrl) ==
    IF StartsWith(blinkUrl, BlinkPrefix) THEN Slice(blinkUrl, 6) ELSE blinkUrl

Http == <<"h", "t", "t", "p">>

\* whether new URL(u) accepts u: it needs a scheme
ValidUrl(u) ==
    \E i \in 2..Len(u) :
        /\ u[i] = ":"
        /\ \A j \in 1..(i - 1) : u[j] \notin {":", "/", "?", "#"}

\* new URL(u).origin, for a u that new URL accepts: scheme and host of an
\* http(s) URL, "null" for any other scheme
Origin(u) ==
    LET host == IF StartsWith(u, Http \o <<":", "/", "/">>) THEN 8
                ELSE IF StartsWith(u, Http \o <<"s", ":", "/", "/">>) THEN 9
                ELSE 0
        ends == {i \in host..Len(u) : u[i] \in {"/", "?", "#"}}
    IN IF host = 0 THEN <<"n", "u", "l", "l">>
       ELSE IF ends = {} THEN u
       ELSE SubSeq(u, 1, (CHOOSE i \in ends : \A j \in ends : i <= j) - 1)

\* the position of the first c in s, or 0
IndexOf(s, c) ==
    LET at == {i \in 1..Len(s) : s[i] = c}
    IN IF at = {} THEN 0 ELSE CHOOSE i \in at : \A j \in at : i <= j

\* s cut at every c
RECURSIVE SplitOn(_, _)
SplitOn(s, c) ==
    IF IndexOf(s, c) = 0 THEN <<s>>
    ELSE <<SubSeq(s, 1, IndexOf(s, c) - 1)>>
         \o SplitOn(SubSeq(s, IndexOf(s, c) + 1, Len(s)), c)

\* the part of a URL before its query, and its query without the "?"
\* (URLs here have no fragment, and only characters that the URL parser and
\* the query serialiser leave as they are)
UrlBase(u) ==
    IF IndexOf(u, "?") = 0 THEN u ELSE SubSeq(u, 1, IndexOf(u, "?") - 1)

UrlQuery(u) ==
    IF IndexOf(u, "?") = 0 THEN <<>> ELSE SubSeq(u, IndexOf(u, "?") + 1, Len(u))

\* one name=value piece of a query
ParsePair(piece) ==
    IF IndexOf(piece, "=") = 0 THEN [key |-> piece, value |-> <<>>]
    ELSE [key |-> SubSeq(piece, 1, IndexOf(piece, "=") - 1),
          value |-> SubSeq(piece, IndexOf(piece, "=") + 1, Len(piece))]

\* new URL(u).searchParams: the list of name-value pairs of the query
SearchParams(u) ==
    LET pieces == FilterNonEmpty(SplitOn(UrlQuery(u), "&"))
    IN [i \in 1..Len(pieces) |-> ParsePair(pieces[i])]

\* searchParams.append(key, value), which keeps the pairs already there
SearchParamsAppend(pairs, key, value) ==
    Append(pairs, [key |-> key, value |-> value])

\* searchParams.set(key, value): the first pair named key gets the value and
\* the other pairs named key go; with no such pair, one is appended
SearchParamsSet(pairs, key, value) ==
    LET at == {i \in 1..Len(pairs) : pairs[i].key = key}
        first == CHOOSE i \in at : \A j \in at : i <= j
        kept == {i \in 1..Len(pairs) : i \notin at \/ i = first}
        nth(k) == CHOOSE i \in kept : Cardinality({j \in kept : j < i}) = k - 1
    IN IF at = {} THEN Append(pairs, [key |-> key, value |-> value])
       ELSE [k \in 1..Cardinality(kept) |->
                IF nth(k) = first THEN [key |-> key, value |-> value]
                ELSE pairs[nth(k)]]

DigitChars == <<"0", "1", "2", "3", "4", "5", "6", "7", "8", "9">>

\* String(n) for a natural number n
RECURSIVE NumberToString(_)
NumberToString(n) ==
    IF n < 10 THEN <<DigitChars[n + 1]>>
    ELSE NumberToString(n \div 10) \o <<DigitChars[(n % 10) + 1]>>

\* String(value) for a params value, a string or a number
StringOf(v) == IF v.t = "number" THEN NumberToString(v.n) ELSE v.s

\* Object.entries(params).forEach(([key, value]) => searchParams.set(...))
RECURSIVE SetAll(_, _)
SetAll(pairs, params) ==
    IF params = <<>> THEN pairs
    ELSE SetAll(SearchParamsSet(pairs, Head(params).key,
                                StringOf(Head(params).value)),
                Tail(params))

\* the pairs as name=value&name=value
RECURSIVE JoinPairs(_)
JoinPairs(pairs) ==
    IF pairs = <<>> THEN <<>>
    ELSE (IF Len(pairs) > 1
          THEN JoinPairs(SubSeq(pairs, 1, Len(pairs) - 1)) \o <<"&">>
          ELSE <<>>)
         \o pairs[Len(pairs)].key \o <<"=">> \o pairs[Len(pairs)].value

\* urlObj.toString()
UrlToString(base, pairs) ==
    IF pairs = <<>> THEN base ELSE base \o <<"?">> \o JoinPairs(pairs)

\* the URL getTransaction fetches: the parsed reference, and with params the
\* string form of the URL object that carries them
RequestUrl(url, params) ==
    IF params = <<>> THEN url
    ELSE UrlToString(UrlBase(url), SetAll(SearchParams(url), params))

\* what a fetch log entry records: the reference and params given and the
\* URL fetched
Fetched(blinkUrl, url, params) ==
    [ref |-> blinkUrl, url |-> url, params |-> params]

\* getTransaction that fetches again after a first failed fetch
GetTransactionCallRetry(blinkUrl, params) ==
    /\ inv' = inv + 1
    /\ Suspend(inv + 1, "getTransaction", "POST",
               Append(log, Entry(inv + 1, "getTransaction", "POST", "rejected",
                                 Fetched(blinkUrl, ParseBlinkUrl(blinkUrl),
                                         params))),
               Fetched(blinkUrl, ParseBlinkUrl(blinkUrl), params))
    /\ UNCHANGED <<tx, signature>>

\* getTransaction(blinkUrl, walletAddress, params), up to its fetch; new URL
\* throws on a URL without a scheme
GetTransactionCall(blinkUrl, params) ==
    LET url == ParseBlinkUrl(blinkUrl) IN
    /\ inv' = inv + 1
    /\ IF params # <<>> /\ ~ValidUrl(url)
       THEN Finish(Thrown("getTransaction", "URL"), log)
       ELSE Suspend(inv + 1, "getTransaction", "POST", log,
                    Fetched(blinkUrl, RequestUrl(url, params), params))
    /\ UNCHANGED <<tx, signature>>

\* the promise of method o rejected with the Error that the method made
\* from response r, whose message is the template literal `parts`
ThrownError(o, r, parts) ==
    [op |-> o, kind |-> "thrown", error |-> "status", response |-> r,
     message |-> parts]

\* how response.text() can settle on an error response
BodyReads ==
    {[settled |-> "fulfilled", text |-> "insufficient funds"],
     [settled |-> "rejected", text |-> ""]}

NoBody == [settled |-> "none", text |-> ""]

\* a response: status line, whether json() will parse, and for an error
\* response how reading its body goes
Response(status, statusText, json, body) ==
    [settled |-> "fulfilled", status |-> status, statusText |-> statusText,
     json |-> json, body |-> body]

NoResponse ==
    [settled |-> "rejected", status |-> 0, statusText |-> "", json |-> FALSE,
     body |-> NoBody]

\* response.ok
ResponseOk(r) == r.status \in 200..299

\* what the action server can answer to the POST
PostResponses ==
    {NoResponse}
    \cup {Response(200, "OK", j, NoBody) : j \in BOOLEAN}
    \cup {Response(422, "Unprocessable Entity", FALSE, b) : b \in BodyReads}
    \cup {Response(500, "", FALSE, b) : b \in BodyReads}

\* await response.text().catch(() => 'Unknown error')
ErrorText(body) ==
    IF body.settled = "rejected" THEN "Unknown error" ELSE body.text

\* the message of getTransaction's error with the status left out
BuildErrorMessageBodyOnly(r) ==
    <<"Failed to get blink transaction: ", ErrorText(r.body)>>

\* `Failed to get blink transaction: ${response.status} - ${errorText}`
BuildErrorMessage(r) ==
    <<"Failed to get blink transaction: ", ToString(r.status), " - ",
      ErrorText(r.body)>>

\* getTransaction after its fetch: response.ok test and response.json()
PostSettle ==
    /\ op = "getTransaction" /\ pc = "POST"
    /\ \E r \in PostResponses, p \in Payloads :
         LET next == Await(r.settled, "ok") IN
         IF next = "throw"
         THEN Finish(Thrown("getTransaction", "fetch"),
                     Settled(log, "rejected"))
         ELSE IF ~ResponseOk(r)
         THEN Finish(ThrownError("getTransaction", r, BuildErrorMessage(r)),
                     Settled(log, "not ok"))
         ELSE IF ~r.json
         THEN Finish(Thrown("getTransaction", "json"),
                     Settled(log, "ok"))
         ELSE Finish(Returned("getTransaction", [transaction |-> p]),
                     Settled(log, "ok"))
    /\ UNCHANGED <<tx, signature, inv, poolVars, driverVars>>

\* getMetadata(blinkUrl), up to its fetch, on behalf of method o
GetMetadataCall(o, blinkUrl) ==
    /\ inv' = inv + 1
    /\ Suspend(inv + 1, o, "GET", log,
               Fetched(blinkUrl, ParseBlinkUrl(blinkUrl), <<>>))
    /\ UNCHANGED <<tx, signature>>

\* inspect(blinkUrl), up to `await this.getMetadata(blinkUrl)`
InspectCall(blinkUrl) == GetMetadataCall("inspect", blinkUrl)

\* linked actions a describe response can carry: one with a relative href
\* and no parameters, one with an absolute href and parameters, one with a
\* relative href that has no leading slash
LinkedActions ==
    << [label |-> <<"A">>, href |-> <<"/", "f">>, parameters |-> Undefined],
       [label |-> <<"B">>,
        href |-> Http \o <<":", "/", "/", "y", "/", "b">>,
        parameters |-> Some("amount")],
       [label |-> <<"C">>, href |-> <<"g">>, parameters |-> Undefined] >>

\* describe responses: label with no links, neither, label with links
\* (links.actions undefined and empty are not told apart: the code treats
\* them alike)
Metadatas ==
    {[label |-> <<"L">>, actions |-> <<>>],
     [label |-> <<>>, actions |-> <<>>],
     [label |-> <<"L">>, actions |-> LinkedActions]}

\* what the action server can answer to the GET
GetResponses ==
    {NoResponse}
    \cup {Response(200, "OK", j, NoBody) : j \in BOOLEAN}
    \cup {Response(404, "Not Found", FALSE, NoBody),
          Response(500, "", FALSE, NoBody)}

\* the message of getMetadata's error with the status line left out
DescribeErrorMessageBare(r) ==
    <<"Failed to fetch blink metadata: ">>

\* `Failed to fetch blink metadata: ${response.status} ${response.statusText}`
DescribeErrorMessage(r) ==
    <<"Failed to fetch blink metadata: ", ToString(r.status), " ",
      r.statusText>>

\* the href inspect gives a linked action
ResolveHref(url, href) ==
    IF StartsWith(href, Http) THEN href ELSE Origin(url) \o href

\* an action list of the linked actions alone
InspectActionsLinkedOnly(url, metadata) ==
    [i \in 1..Len(metadata.actions) |->
        [label |-> metadata.actions[i].label,
         href |-> metadata.actions[i].href,
         parameters |-> metadata.actions[i].parameters]]

\* the action list inspect builds
InspectActions(url, metadata) ==
    (IF metadata.label # <<>> /\ Len(metadata.actions) = 0
     THEN <<[label |-> metadata.label, href |-> url]>>
     ELSE <<>>)
    \o [i \in 1..Len(metadata.actions) |->
           [label |-> metadata.actions[i].label,
            href |-> ResolveHref(url, metadata.actions[i].href),
            parameters |-> metadata.actions[i].parameters]]

\* whether building the list throws: new URL(url) for a relative href
InspectThrows(url, metadata) ==
    \E i \in 1..Len(metadata.actions) :
        /\ ~StartsWith(metadata.actions[i].href, Http)
        /\ ~ValidUrl(url)

\* getMetadata after its fetch, and inspect after its getMetadata
GetSettle ==
    /\ op \in {"getMetadata", "inspect"} /\ pc = "GET"
    /\ \E r \in GetResponses, m \in Metadatas :
         LET next == Await(r.settled, "ok")
             url == ParseBlinkUrl(log[Len(log)].info.ref)
         IN
         IF next = "throw"
         THEN Finish(Thrown(op, "fetch"), Settled(log, "rejected"))
         ELSE IF ~ResponseOk(r)
         THEN Finish(ThrownError(op, r, DescribeErrorMessage(r)),
                     Settled(log, "not ok"))
         ELSE IF ~r.json
         THEN Finish(Thrown(op, "json"), Settled(log, "ok"))
         ELSE IF op = "getMetadata"
         THEN Finish(Returned(op, m), Settled(log, "ok"))
         ELSE IF InspectThrows(url, m)
         THEN Finish(Thrown(op, "URL"), Settled(log, "ok"))
         ELSE Finish(Returned(op, [url |-> url, metadata |-> m,
                                   actions |-> InspectActions(url, m)]),
                     Settled(log, "ok"))
    /\ UNCHANGED <<tx, signature, inv, poolVars, driverVars>>

\* signAndSend(blinkTx, signTransaction), up to `await signTransaction(tx)`
SignAndSendCall(blinkTx) ==
    LET d == DecodeTransaction(blinkTx.transaction)
        n == inv + 1
    IN /\ inv' = n
       /\ signature' = "none"
       /\ IF d.ok
          THEN /\ tx' = d.tx
               /\ Suspend(n, "signAndSend", "signTransaction",
                          Append(log, Entry(n, "signAndSend", "decodeTransaction",
                                            "ok", Decoded(blinkTx, d))),
                          NoInfo)
          ELSE /\ tx' = NoInfo
               /\ Finish(Thrown("signAndSend", "decodeTransaction"),
                         Append(log, Entry(n, "signAndSend", "decodeTransaction",
                                           "threw", Decoded(blinkTx, d))))

\* how the caller's signing function can settle: it rejects, or it fulfils
\* with a transaction of either encoding whose serialize() works or throws
SignOutcomes ==
    {[settled |-> "rejected", type |-> tx.type, serializable |-> TRUE]}
    \cup [settled : {"fulfilled"}, type : {"versioned", "legacy"},
          serializable : BOOLEAN]

\* signAndSend from the signer's answer up to `await sendRawTransaction(...)`
SignSettle ==
    /\ op = "signAndSend" /\ pc = "signTransaction"
    /\ \E r \in SignOutcomes :
         LET next == Await(r.settled, "sendRawTransaction")
             l == Settled(log, r.settled)
         IN IF next = "throw"
            THEN Finish(Thrown("signAndSend", "signTransaction"), l)
            ELSE IF ~r.serializable
            THEN Finish(Thrown("signAndSend", "serialize"), l)
            ELSE Suspend(inv, "signAndSend", next, l,
                         [type |-> r.type, opts |-> SendOptions(r)])
    /\ UNCHANGED <<tx, signature, inv, poolVars, driverVars>>

Signatures == {"sig1"}

\* signAndSend from the broadcast's answer up to `await getLatestBlockhash()`
SendSettle ==
    /\ op = "signAndSend" /\ pc = "sendRawTransaction"
    /\ \E settled \in {"rejected", "fulfilled"}, sig \in Signatures :
         LET next == Await(settled, AfterSend)
             l == Settled(log, settled)
         IN /\ signature' = IF settled = "fulfilled" THEN sig ELSE "none"
            /\ IF next = "throw"
               THEN Finish(Thrown("signAndSend", "sendRawTransaction"), l)
               ELSE IF next = "return"
               THEN Finish(Returned("signAndSend", signature'), l)
               ELSE Suspend(inv, "signAndSend", next, l, NoInfo)
    /\ UNCHANGED <<tx, inv, poolVars, driverVars>>

\* signAndSend from the blockhash answer up to `await confirmTransaction(...)`
BlockhashSettle ==
    /\ op = "signAndSend" /\ pc = "getLatestBlockhash"
    /\ \E settled \in {"rejected", "fulfilled"} :
         LET next == Await(settled, "confirmTransaction")
             l == Settled(log, settled)
         IN IF next = "throw"
            THEN Finish(Thrown("signAndSend", "getLatestBlockhash"), l)
            ELSE Suspend(inv, "signAndSend", next, l, [signature |-> signature])
    /\ UNCHANGED <<tx, signature, inv, poolVars, driverVars>>

\* how confirmTransaction can settle: it rejects when the wait times out or
\* the blockhash expires; it resolves with value.err null when the
\* transaction reached the commitment level, and with value.err set when the
\* transaction landed and failed
ConfirmOutcomes ==
    {[settled |-> "rejected", err |-> NoErr]}
    \cup [settled : {"fulfilled"}, err : {NoErr} \cup TxErrors]

ConfirmVerdict(r) ==
    IF r.settled = "rejected" THEN "expired"
    ELSE IF r.err.t = "null" THEN "confirmed" ELSE "failed"

\* signAndSend from the confirmation's answer to `return signature`
ConfirmSettle ==
    /\ op = "signAndSend" /\ pc = "confirmTransaction"
    /\ \E r \in ConfirmOutcomes :
         LET next == Await(r.settled, "return")
             l == SettledWith(log, ConfirmVerdict(r), [err |-> r.err])
         IN IF next = "throw"
            THEN Finish(Thrown("signAndSend", "confirmTransaction"), l)
            ELSE Finish(Returned("signAndSend", signature), l)
    /\ UNCHANGED <<tx, signature, inv, poolVars, driverVars>>

\* simulate(blinkTx), up to `await simulateTransaction(tx)`
SimulateCall(blinkTx) ==
    LET d == DecodeTransaction(blinkTx.transaction)
        n == inv + 1
    IN /\ inv' = n
       /\ UNCHANGED signature
       /\ IF d.ok
          THEN /\ tx' = d.tx
               /\ op' = "simulate"
               /\ pc' = "simulateTransaction"
               /\ ret' = NoRet
               /\ log' = log \o
                    <<Entry(n, "simulate", "decodeTransaction", "ok",
                            Decoded(blinkTx, d)),
                      Entry(n, "simulate", SimulateRpc(d.tx), "pending", NoInfo)>>
          ELSE /\ tx' = NoInfo
               /\ Finish(Thrown("simulate", "decodeTransaction"),
                         Append(log, Entry(n, "simulate", "decodeTransaction",
                                           "threw", Decoded(blinkTx, d))))

\* result.value of a dry-run
SimulationValues ==
    [err : {NoErr} \cup TxErrors,
     logs : {NullValue, Some(<<"Program log">>)},
     unitsConsumed : {NullValue, Some(5000)}]

\* simulate from the dry-run's answer to its return
SimulateSettle ==
    /\ op = "simulate" /\ pc = "simulateTransaction"
    /\ \/ LET next == Await("rejected", "return") IN
          IF next = "throw"
          THEN Finish(Thrown("simulate", "simulateTransaction"),
                      Settled(log, "rejected"))
          ELSE Finish(Returned("simulate", Undefined),
                      Settled(log, "rejected"))
       \/ \E v \in SimulationValues :
            Finish(Returned("simulate", SimulationResult(v)),
                   SettledWith(log, "fulfilled", v))
    /\ UNCHANGED <<tx, signature, inv, poolVars, driverVars>>

----------------------------------------------------------------------------
(* cli: the execute-type commands (execute, kamino deposit, ...) *)

\* the reference the commands and the library user of this model pass,
\* with no params
ExecRef == BlinkPrefix \o Http \o <<":", "/", "/", "x", "/", "a">>

Exit(l) ==
    /\ cliPc' = "exited"
    /\ out' = Append(out, "error")

\* program.hook('preAction', ...): --rpc written to SOLANA_RPC_URL
CliPreAction ==
    /\ mode = "cli" /\ cliPc = "hook"
    /\ env' = IF Truthy(rpc)
              THEN [env EXCEPT !.SOLANA_RPC_URL = EnvSet(rpc.val)]
              ELSE env
    /\ cliPc' = "start"
    /\ UNCHANGED <<rpcUrls, currentRpcIndex, defaultConnection, connCount,
                   allocs, poolRet, poolCalls, cacheHist, health, mode, rpc,
                   dryRun, connection, op, pc, tx, signature, ret, inv, log,
                   out>>

\* the action handler up to `await blinks.getTransaction(...)`:
\* Wallet.fromEnv(), getConnection(), new BlinksExecutor(connection), the
\* command's parameter preparation (JSON.parse of --params, market lookup)
CliStart ==
    /\ mode = "cli" /\ cliPc = "start"
    /\ \/ /\ Exit("Wallet.fromEnv")
          /\ UNCHANGED <<rpcUrls, currentRpcIndex, defaultConnection, connCount,
                         allocs, poolRet, connection, op, pc, tx, signature,
                         ret, inv, log>>
       \/ /\ GetConnectionEffect(FALSE, <<>>)
          /\ connection' = defaultConnection'
          /\ \/ /\ Exit("params")
                /\ UNCHANGED <<op, pc, tx, signature, ret, inv, log>>
             \/ /\ GetTransactionCall(ExecRef, <<>>)
                /\ cliPc' = "getTransaction"
                /\ out' = out
    /\ UNCHANGED <<env, poolCalls, cacheHist, health, mode, rpc, dryRun>>

\* a handler that signs and sends whatever --dry-run says
CliAfterBuildAlwaysSend ==
    /\ mode = "cli" /\ cliPc = "getTransaction" /\ op = "none"
    /\ IF ret.kind = "thrown"
       THEN /\ Exit("getTransaction")
            /\ UNCHANGED <<op, pc, tx, signature, ret, inv, log>>
       ELSE /\ out' = out
            /\ SignAndSendCall(ret.value) /\ cliPc' = "signAndSend"
    /\ UNCHANGED <<poolVars, mode, rpc, dryRun, connection>>

\* the handler from the build's answer to the await of simulate or signAndSend
CliAfterBuild ==
    /\ mode = "cli" /\ cliPc = "getTransaction" /\ op = "none"
    /\ IF ret.kind = "thrown"
       THEN /\ Exit("getTransaction")
            /\ UNCHANGED <<op, pc, tx, signature, ret, inv, log>>
       ELSE /\ out' = out
            /\ IF dryRun
               THEN SimulateCall(ret.value) /\ cliPc' = "simulate"
               ELSE SignAndSendCall(ret.value) /\ cliPc' = "signAndSend"
    /\ UNCHANGED <<poolVars, mode, rpc, dryRun, connection>>

\* the dry-run branch after `await blinks.simulate(blinkTx)`
CliAfterSimulate ==
    /\ mode = "cli" /\ cliPc = "simulate" /\ op = "none"
    /\ IF ret.kind = "thrown"
       THEN Exit("simulate")
       ELSE /\ cliPc' = "done"
            /\ out' = Append(out, "simulation")
    /\ UNCHANGED <<poolVars, mode, rpc, dryRun, connection, op, pc, tx, signature,
                   ret, inv, log>>

\* the execute branch after `await blinks.signAndSend(blinkTx, signer)`
CliAfterSignAndSend ==
    /\ mode = "cli" /\ cliPc = "signAndSend" /\ op = "none"
    /\ IF ret.kind = "thrown"
       THEN Exit("signAndSend")
       ELSE /\ cliPc' = "done"
            /\ out' = out \o <<"success", ret.value>>
    /\ UNCHANGED <<poolVars, mode, rpc, dryRun, connection, op, pc, tx, signature,
                   ret, inv, log>>

----------------------------------------------------------------------------
(* a program that uses the executor as a library *)

\* const connection = getConnection(); new BlinksExecutor(connection)
LibCreate ==
    /\ mode = "lib" /\ connection = Null
    /\ GetConnectionEffect(FALSE, <<>>)
    /\ connection' = defaultConnection'
    /\ UNCHANGED <<env, poolCalls, cacheHist, health, mode, rpc, dryRun, cliPc, op,
                   pc, tx, signature, ret, inv, log, out>>

LibReady ==
    /\ mode = "lib" /\ connection # Null /\ op = "none"
    /\ inv < MaxLibCalls

LibGetTransaction ==
    /\ LibReady
    /\ GetTransactionCall(ExecRef, <<>>)
    /\ UNCHANGED <<poolVars, mode, rpc, dryRun, cliPc, connection, out>>

LibSimulate ==
    /\ LibReady
    /\ \E p \in Payloads : SimulateCall([transaction |-> p])
    /\ UNCHANGED <<poolVars, mode, rpc, dryRun, cliPc, connection, out>>

LibSignAndSend ==
    /\ LibReady
    /\ \E p \in Payloads : SignAndSendCall([transaction |-> p])
    /\ UNCHANGED <<poolVars, mode, rpc, dryRun, cliPc, connection, out>>

----------------------------------------------------------------------------
(* The executor and the commands *)

ExecEnvs ==
    {[SOLANA_RPC_URLS |-> Unset, SOLANA_RPC_URL |-> Unset],
     [SOLANA_RPC_URLS |-> EnvSet(<<"a", ",", "b">>), SOLANA_RPC_URL |-> Unset]}

PoolFresh ==
    /\ rpcUrls = <<>>
    /\ currentRpcIndex = 0
    /\ defaultConnection = Null
    /\ connCount = 0
    /\ allocs = <<>>
    /\ poolRet = [op |-> "none"]
    /\ poolCalls = 0
    /\ cacheHist = NoHist
    /\ health = NoHealth

ExecIdle ==
    /\ connection = Null
    /\ op = "none"
    /\ pc = "idle"
    /\ tx = NoInfo
    /\ signature = "none"
    /\ ret = NoRet
    /\ inv = 0
    /\ log = <<>>
    /\ out = <<>>

Init ==
    /\ env \in ExecEnvs
    /\ PoolFresh
    /\ ExecIdle
    /\ \/ mode = "cli" /\ rpc = Unset /\ dryRun \in BOOLEAN /\ cliPc = "start"
       \/ mode = "lib" /\ rpc = Unset /\ dryRun = FALSE /\ cliPc = "none"

Next ==
    \/ CliStart
    \/ CliAfterBuild
    \/ CliAfterSimulate
    \/ CliAfterSignAndSend
    \/ LibCreate
    \/ LibGetTransaction
    \/ LibSimulate
    \/ LibSignAndSend
    \/ PostSettle
    \/ SignSettle
    \/ SendSettle
    \/ BlockhashSettle
    \/ ConfirmSettle
    \/ SimulateSettle

Spec == Init /\ [][Next]_vars

----------------------------------------------------------------------------
(* A program that describes and builds from references of every shape *)

ActionUrl == Http \o <<":", "/", "/", "x", "/", "a">>

\* references: bare, prefixed, prefixed twice, "blink" without its colon,
\* the prefix not in front, and a URL without a scheme
BlinkRefs ==
    {ActionUrl,
     BlinkPrefix \o ActionUrl,
     BlinkPrefix \o BlinkPrefix \o ActionUrl,
     <<"b", "l", "i", "n", "k">> \o ActionUrl,
     ActionUrl \o BlinkPrefix,
     <<"x", "/", "a">>}

ParamSets ==
    {<<>>, <<[key |-> <<"k">>, value |-> [t |-> "string", s |-> <<"1">>]]>>}

FetchReady ==
    /\ mode = "fetch" /\ op = "none"
    /\ inv < MaxLibCalls

FetchGetMetadata ==
    /\ FetchReady
    /\ \E b \in BlinkRefs : GetMetadataCall("getMetadata", b)
    /\ UNCHANGED <<poolVars, driverVars>>

FetchInspect ==
    /\ FetchReady
    /\ \E b \in BlinkRefs : InspectCall(b)
    /\ UNCHANGED <<poolVars, driverVars>>

FetchGetTransaction ==
    /\ FetchReady
    /\ \E b \in BlinkRefs, p \in ParamSets : GetTransactionCall(b, p)
    /\ UNCHANGED <<poolVars, driverVars>>

FetchInit ==
    /\ env = [SOLANA_RPC_URLS |-> Unset, SOLANA_RPC_URL |-> Unset]
    /\ PoolFresh
    /\ ExecIdle
    /\ mode = "fetch" /\ rpc = Unset /\ dryRun = FALSE /\ cliPc = "none"

FetchNext ==
    \/ FetchGetMetadata
    \/ FetchInspect
    \/ FetchGetTransaction
    \/ GetSettle
    \/ PostSettle

FetchSpec == FetchInit /\ [][FetchNext]_vars

----------------------------------------------------------------------------
(* A program that calls every method of the executor *)

\* references: a prefixed URL and a URL without a scheme
OpsRefs == {BlinkPrefix \o ActionUrl, <<"x", "/", "a">>}

OpsReady ==
    /\ mode = "ops" /\ op = "none"
    /\ inv < MaxOpsCalls

OpsGetMetadata ==
    /\ OpsReady
    /\ \E b \in OpsRefs :
         GetMetadataCall("getMetadata", b) \/ InspectCall(b)
    /\ UNCHANGED <<poolVars, driverVars>>

OpsGetTransaction ==
    /\ OpsReady
    /\ \E b \in OpsRefs, p \in ParamSets : GetTransactionCall(b, p)
    /\ UNCHANGED <<poolVars, driverVars>>

OpsSimulate ==
    /\ OpsReady
    /\ \E p \in Payloads : SimulateCall([transaction |-> p])
    /\ UNCHANGED <<poolVars, driverVars>>

OpsSignAndSend ==
    /\ OpsReady
    /\ \E p \in Payloads : SignAndSendCall([transaction |-> p])
    /\ UNCHANGED <<poolVars, driverVars>>

OpsInit ==
    /\ env = [SOLANA_RPC_URLS |-> Unset, SOLANA_RPC_URL |-> Unset]
    /\ PoolFresh
    /\ ExecIdle
    /\ mode = "ops" /\ rpc = Unset /\ dryRun = FALSE /\ cliPc = "none"

OpsNext ==
    \/ OpsGetMetadata
    \/ OpsGetTransaction
    \/ OpsSimulate
    \/ OpsSignAndSend
    \/ GetSettle
    \/ PostSettle
    \/ SignSettle
    \/ SendSettle
    \/ BlockhashSettle
    \/ ConfirmSettle
    \/ SimulateSettle

OpsSpec == OpsInit /\ [][OpsNext]_vars

----------------------------------------------------------------------------
(* A program that builds from references that carry a query already *)

\* references: no query, a query without the params' keys, a key twice with
\* another between, and the same key twice
QueryRefs ==
    {ActionUrl,
     BlinkPrefix \o ActionUrl \o <<"?", "x", "=", "1">>,
     ActionUrl \o <<"?", "x", "=", "1", "&", "k", "=", "2", "&", "x", "=", "3">>,
     BlinkPrefix \o ActionUrl \o <<"?", "k", "=", "2", "&", "k", "=", "3">>}

QueryParams ==
    {<<>>,
     <<[key |-> <<"k">>, value |-> [t |-> "number", n |-> 100]]>>,
     <<[key |-> <<"x">>, value |-> [t |-> "string", s |-> <<"9">>]],
       [key |-> <<"k">>, value |-> [t |-> "number", n |-> 7]]>>}

BuildGetTransaction ==
    /\ FetchReady
    /\ \E b \in QueryRefs, p \in QueryParams : GetTransactionCall(b, p)
    /\ UNCHANGED <<poolVars, driverVars>>

BuildNext ==
    \/ BuildGetTransaction
    \/ PostSettle

BuildSpec == FetchInit /\ [][BuildNext]_vars

----------------------------------------------------------------------------
(* The endpoint pool on its own *)

EnvUrlsValues == {Unset} \cup {EnvSet(s) : s \in StringsUpTo(MaxEnvLen)}

EnvUrlValues == {Unset, EnvSet(<<>>), EnvSet(<<"b">>)}

PoolInit ==
    /\ env \in [SOLANA_RPC_URLS : EnvUrlsValues, SOLANA_RPC_URL : EnvUrlValues]
    /\ PoolFresh
    /\ ExecIdle
    /\ mode = "none" /\ rpc = Unset /\ dryRun = FALSE /\ cliPc = "none"

PoolNext ==
    \/ GetNextRpcUrl
    \/ GetRpcUrls
    \/ GetConnection
    \/ GetFreshConnection

PoolSpec == PoolInit /\ [][PoolNext]_vars

-----------------------------------------------------------------------------
(* Endpoint resolution on its own, over every value of the two variables *)

ResolveNext ==
    \/ GetNextRpcUrl
    \/ GetRpcUrls

ResolveSpec == PoolInit /\ [][ResolveNext]_vars

-----------------------------------------------------------------------------
(* The connection cache, in a process that also rewrites its environment *)

CacheEnvs ==
    [SOLANA_RPC_URLS : {Unset, EnvSet(<<"b">>), EnvSet(<<"a", ",", "b">>)},
     SOLANA_RPC_URL : {Unset, EnvSet(<<"b">>)}]

\* process.env.X = value, as the preAction hook does for SOLANA_RPC_URL
SetEnv ==
    /\ \E e \in CacheEnvs : e # env /\ env' = e
    /\ UNCHANGED <<rpcUrls, currentRpcIndex, defaultConnection, connCount,
                   allocs, poolRet, poolCalls, cacheHist, health, execVars>>

CacheInit ==
    /\ env \in CacheEnvs
    /\ PoolFresh
    /\ ExecIdle
    /\ mode = "none" /\ rpc = Unset /\ dryRun = FALSE /\ cliPc = "none"

CacheNext ==
    \/ GetNextRpcUrl
    \/ GetRpcUrls
    \/ GetConnectionTracked
    \/ GetFreshConnection
    \/ SetEnv

CacheSpec == CacheInit /\ [][CacheNext]_vars

-----------------------------------------------------------------------------
(* Health checks of the configured endpoints *)

HealthNext ==
    \/ CheckAllRpcsCall
    \/ RpcSettle

HealthSpec == CacheInit /\ [][HealthNext]_vars

-----------------------------------------------------------------------------
(* A command started with and without --rpc, in every environment *)

\* --rpc not given, given as the empty string, given as a URL
RpcOptions == {Unset, EnvSet(<<>>), EnvSet(<<"c">>)}

RpcOptionInit ==
    /\ env \in CacheEnvs
    /\ PoolFresh
    /\ ExecIdle
    /\ mode = "cli" /\ rpc \in RpcOptions /\ dryRun \in BOOLEAN
    /\ cliPc = "hook"

RpcOptionNext ==
    \/ CliPreAction
    \/ CliStart
    \/ CliAfterBuild
    \/ CliAfterSimulate
    \/ CliAfterSignAndSend
    \/ PostSettle
    \/ SignSettle
    \/ SendSettle
    \/ BlockhashSettle
    \/ ConfirmSettle
    \/ SimulateSettle

RpcOptionSpec == RpcOptionInit /\ [][RpcOptionNext]_vars

----------------------------------------------------------------------------
(* Callers of the pool while a health check is in flight *)

InterleaveNext ==
    \/ GetNextRpcUrl
    \/ GetFreshConnection
    \/ GetConnectionTracked
    \/ CheckAllRpcsCall
    \/ RpcSettle

\* two endpoints configured, or none and the default used
InterleaveInit ==
    /\ CacheInit
    /\ env.SOLANA_RPC_URL = Unset
    /\ env.SOLANA_RPC_URLS \in {Unset, EnvSet(<<"a", ",", "b">>)}

InterleaveSpec == InterleaveInit /\ [][InterleaveNext]_vars

----------------------------------------------------------------------------
(* The users of the endpoint list, in a process that rewrites its          *)
(* environment                                                              *)

EnvNext ==
    \/ GetRpcUrls
    \/ GetNextRpcUrl
    \/ CheckAllRpcsCall
    \/ SetEnv

EnvSpec == CacheInit /\ [][EnvNext]_vars

----------------------------------------------------------------------------
(* Reading the log *)

LogIndexes == 1..Len(log)

\* the calls issued by executor method call number n, in order
CallsOf(n) == SelectSeq(log, LAMBDA e : e.inv = n)

NamesOf(n) == [i \in 1..Len(CallsOf(n)) |-> CallsOf(n)[i].call]

CountOf(n, c) == Cardinality({i \in LogIndexes : log[i].inv = n /\ log[i].call = c})

IsPrefix(a, b) == Len(a) <= Len(b) /\ a = SubSeq(b, 1, Len(a))

Pipeline ==
    <<"decodeTransaction", "signTransaction", "sendRawTransaction",
      "getLatestBlockhash", "confirmTransaction">>

----------------------------------------------------------------------------
(* C1: the k-th URL handed out by getNextRpcUrl is entry ((k-1) mod N) of   *)
(* the configured list: the first N calls return the list in its original   *)
(* order, each endpoint once, and call N+1 returns the first endpoint again *)

RoundRobinOrder ==
    \A k \in 1..Len(allocs) :
        allocs[k] = rpcUrls[((k - 1) % Len(rpcUrls)) + 1]

\* three endpoints configured and four calls made: the fourth wrapped around
RoundRobinWrapped ==
    /\ Len(rpcUrls) = 3
    /\ Len(allocs) = 4
    /\ poolRet.op = "getNextRpcUrl"
    /\ allocs[4] = rpcUrls[1]
    /\ rpcUrls[1] # rpcUrls[2]

(* C2: signAndSend returns the signature only when the confirmation wait    *)
(* found the transaction confirmed without an on-chain error; a timed-out   *)
(* wait or an on-chain failure makes signAndSend fail instead               *)

SignatureOnlyWhenConfirmed ==
    (ret.op = "signAndSend" /\ ret.kind = "returned") =>
        /\ log[Len(log)].call = "confirmTransaction"
        /\ log[Len(log)].outcome = "confirmed"

(* C3: when the signing function throws, signAndSend rejects with that      *)
(* exception and the call issues no sendRawTransaction, getLatestBlockhash  *)
(* or confirmTransaction                                                    *)

SignerThrowPropagates ==
    \A i \in LogIndexes :
        (log[i].call = "signTransaction" /\ log[i].outcome = "rejected") =>
            /\ \A j \in LogIndexes : log[j].inv = log[i].inv => j <= i
            /\ log[i].inv = inv =>
                   /\ op = "none"
                   /\ ret = Thrown("signAndSend", "signTransaction")

SignerThrew ==
    /\ log # <<>>
    /\ log[Len(log)].call = "signTransaction"
    /\ log[Len(log)].outcome = "rejected"
    /\ ret.kind = "thrown"

(* C4: the calls of one signAndSend run are an initial part of decode,      *)
(* sign, broadcast, blockhash, confirm, each at most once and in that       *)
(* order, and the signature is returned only after all five, with the       *)
(* confirmation wait over                                                   *)

SignAndSendLinear ==
    \A n \in 1..inv :
        (\E i \in LogIndexes : log[i].inv = n /\ log[i].op = "signAndSend") =>
            /\ IsPrefix(NamesOf(n), Pipeline)
            /\ (n = inv /\ ret.op = "signAndSend" /\ ret.kind = "returned") =>
                   /\ NamesOf(n) = Pipeline
                   /\ \A i \in 1..Len(CallsOf(n)) :
                          CallsOf(n)[i].outcome # "pending"

SignatureAfterConfirmation ==
    /\ ret.op = "signAndSend" /\ ret.kind = "returned"
    /\ NamesOf(inv) = Pipeline
    /\ ret.value \in Signatures

(* C5: one signAndSend call signs at most once, broadcasts at most once,    *)
(* issues no request to the action server, and every broadcast, of a        *)
(* versioned or of a legacy transaction, has skipPreflight=false and        *)
(* maxRetries=3                                                             *)

SignAndSendOnceWithFixedOptions ==
    /\ \A n \in 1..inv :
           /\ CountOf(n, "signTransaction") <= 1
           /\ CountOf(n, "sendRawTransaction") <= 1
    /\ \A i \in LogIndexes :
           /\ log[i].op = "signAndSend" => log[i].call # "POST"
           /\ (log[i].op = "signAndSend" /\ log[i].call = "sendRawTransaction") =>
                  /\ log[i].info.opts.skipPreflight = FALSE
                  /\ log[i].info.opts.maxRetries = 3

BroadcastBothEncodings ==
    /\ \E i \in LogIndexes : /\ log[i].call = "sendRawTransaction"
                             /\ log[i].info.type = "versioned"
    /\ \E i \in LogIndexes : /\ log[i].call = "sendRawTransaction"
                             /\ log[i].info.type = "legacy"

(* C6: when the broadcast fails, signAndSend rejects with the broadcast's   *)
(* error, returns no signature, and issues neither getLatestBlockhash nor   *)
(* confirmTransaction                                                       *)

BroadcastFailureIsFatal ==
    \A i \in LogIndexes :
        (log[i].call = "sendRawTransaction" /\ log[i].outcome = "rejected") =>
            /\ \A j \in LogIndexes : log[j].inv = log[i].inv => j <= i
            /\ log[i].inv = inv =>
                   /\ op = "none"
                   /\ ret = Thrown("signAndSend", "sendRawTransaction")

BroadcastFailed ==
    /\ log # <<>>
    /\ log[Len(log)].call = "sendRawTransaction"
    /\ log[Len(log)].outcome = "rejected"
    /\ ret.kind = "thrown"

(* C7: when the dry-run reports an on-chain error, simulate returns (does   *)
(* not throw) a result with success false and error the JSON text of the    *)
(* error                                                                    *)

ExpectedErrorTexts ==
    {<<[t |-> "string", s |-> "BlockhashNotFound"], "\"BlockhashNotFound\"">>,
     <<[t |-> "object", key |-> "InstructionError", index |-> 0,
        detail |-> "InvalidAccountData"],
       "{\"InstructionError\":[0,\"InvalidAccountData\"]}">>,
     <<[t |-> "object", key |-> "InstructionError", index |-> 1,
        detail |-> "Custom"],
       "{\"InstructionError\":[1,\"Custom\"]}">>}

DryRunReportedError ==
    /\ log # <<>>
    /\ log[Len(log)].op = "simulate"
    /\ log[Len(log)].outcome = "fulfilled"
    /\ log[Len(log)].info.err.t # "null"

SimulateErrorIsAResult ==
    DryRunReportedError =>
        /\ op = "none"
        /\ ret.op = "simulate" /\ ret.kind = "returned"
        /\ ret.value.success = FALSE
        /\ <<log[Len(log)].info.err, ret.value.error>> \in ExpectedErrorTexts

SimulateReturnedFailure ==
    /\ DryRunReportedError
    /\ ret.kind = "returned"
    /\ ret.value.error = "{\"InstructionError\":[1,\"Custom\"]}"

(* C8: a simulate run never invokes the signing function or the broadcast:  *)
(* after decoding it issues the dry-run RPC call, once, and nothing else    *)

SimulateOnlyDryRuns ==
    \A i \in LogIndexes :
        log[i].op = "simulate" =>
            /\ log[i].call \in {"decodeTransaction", "simulateTransaction"}
            /\ CountOf(log[i].inv, "simulateTransaction") <= 1

SimulateRan ==
    /\ ret.op = "simulate" /\ ret.kind = "returned"
    /\ NamesOf(inv) = <<"decodeTransaction", "simulateTransaction">>

(* C9, as claimed: every finished run of an execute-type command has issued *)
(* exactly one build POST, before any decoding, and simulate and            *)
(* signAndSend issue none                                                   *)

PostCount == Cardinality({i \in LogIndexes : log[i].call = "POST"})

PostBeforeDecodeOnly ==
    /\ \A i \in LogIndexes :
           log[i].call = "decodeTransaction" =>
               \E j \in 1..(i - 1) : log[j].call = "POST"
    /\ \A i \in LogIndexes :
           log[i].op \in {"simulate", "signAndSend"} => log[i].call # "POST"

VersionedFirstThenLegacy ==
    \A i \in LogIndexes :
        log[i].call = "decodeTransaction" =>
            /\ (log[i].info.buffer.legacyOk /\ ~log[i].info.buffer.versionedOk) =>
                   log[i].outcome = "ok" /\ log[i].info.type = "legacy"
            /\ log[i].info.buffer.versionedOk =>
                   log[i].outcome = "ok" /\ log[i].info.type = "versioned"

LegacyFallbackTaken ==
    \E i \in LogIndexes :
        /\ log[i].call = "decodeTransaction"
        /\ log[i].info.buffer = [versionedOk |-> FALSE, legacyOk |-> TRUE]
        /\ log[i].info.type = "legacy"
        /\ tx = [type |-> "legacy"]

(* C11: a payload that decodes as neither encoding is fatal: the decode     *)
(* throws, signAndSend then calls neither the signer nor the broadcast,     *)
(* simulate does not issue the dry-run, and the method rejects with the     *)
(* decode error                                                             *)

Undecodable == [versionedOk |-> FALSE, legacyOk |-> FALSE]

DecodeFailureIsFatal ==
    \A i \in LogIndexes :
        (log[i].call = "decodeTransaction" /\ log[i].info.buffer = Undecodable) =>
            /\ log[i].outcome = "threw"
            /\ \A j \in LogIndexes : log[j].inv = log[i].inv => j <= i
            /\ log[i].inv = inv =>
                   /\ op = "none"
                   /\ ret = Thrown(log[i].op, "decodeTransaction")

BothMethodsRejectedUndecodable ==
    /\ \E i \in LogIndexes : /\ log[i].op = "signAndSend"
                             /\ log[i].info = [buffer |-> Undecodable, type |-> "none"]
    /\ \E i \in LogIndexes : /\ log[i].op = "simulate"
                             /\ log[i].info = [buffer |-> Undecodable, type |-> "none"]
    /\ ret.kind = "thrown"

(* C12: getConnection makes a new cached connection only when nothing is   *)
(* cached or the URL asked for differs from the cached connection's         *)
(* endpoint; in every other case the cache is left alone and the cached     *)
(* object itself is what the call returns                                   *)

CachedConnectionReused ==
    [][(poolRet'.op = "getConnection" /\ poolCalls' = poolCalls + 1) =>
         LET mayConstruct ==
                 \/ defaultConnection = Null
                 \/ /\ poolRet'.hasUrl
                    /\ poolRet'.url # defaultConnection.rpcEndpoint
         IN /\ connCount' # connCount => mayConstruct
            /\ ~mayConstruct => /\ connCount' = connCount
                                /\ defaultConnection' = defaultConnection
                                /\ poolRet'.conn = defaultConnection]_vars

\* getConnection(u) called twice and nothing else: one connection was made
SameUrlAskedTwice ==
    /\ poolRet.op = "getConnection"
    /\ poolCalls = 2
    /\ rpcUrls = <<>>
    /\ cacheHist = [firstPick |-> <<>>, explicit |-> TRUE]
    /\ connCount = 1

(* C13: every getConnection() call without a URL returns the connection to  *)
(* the endpoint that round-robin selected at the first such call            *)

FirstPickForever ==
    (poolRet.op = "getConnection" /\ ~poolRet.hasUrl) =>
        poolRet.conn.rpcEndpoint = cacheHist.firstPick[1]

(* C13, amended: as long as getConnection has never been called with an     *)
(* explicit URL, every getConnection() call without a URL returns the       *)
(* connection to the endpoint that round-robin selected at the first such   *)
(* call                                                                     *)

FirstPickUntilExplicitUrl ==
    (poolRet.op = "getConnection" /\ ~poolRet.hasUrl /\ ~cacheHist.explicit) =>
        poolRet.conn.rpcEndpoint = cacheHist.firstPick[1]

\* a later getConnection() for which round-robin selected another endpoint
LaterPickIgnored ==
    /\ poolRet.op = "getConnection"
    /\ ~poolRet.hasUrl
    /\ ~cacheHist.explicit
    /\ poolRet.url # cacheHist.firstPick[1]

(* C14: getFreshConnection makes a connection that did not exist before, to *)
(* the endpoint under the cursor, moves the cursor on by one modulo the     *)
(* length of the list, and leaves the cached connection as it was           *)

FreshConnectionIsNew ==
    [][(poolRet'.op = "getFreshConnection" /\ poolCalls' = poolCalls + 1) =>
         /\ connCount' = connCount + 1
         /\ poolRet'.conn.id \notin 1..connCount
         /\ poolRet'.conn.rpcEndpoint = rpcUrls'[currentRpcIndex + 1]
         /\ currentRpcIndex' = (currentRpcIndex + 1) % Len(rpcUrls')
         /\ defaultConnection' = defaultConnection]_vars

\* a fresh connection made while another one is cached, the cursor wrapping
FreshBesideCached ==
    /\ poolRet.op = "getFreshConnection"
    /\ defaultConnection # Null
    /\ poolRet.conn.id # defaultConnection.id
    /\ Len(rpcUrls) = 2
    /\ Len(allocs) = 2
    /\ currentRpcIndex = 0

(* C15: the list resolved on first use is the non-empty trimmed entries of  *)
(* SOLANA_RPC_URLS in order when there is at least one; otherwise the       *)
(* single SOLANA_RPC_URL when that is set (to a non-empty value);           *)
(* otherwise the hardcoded mainnet endpoint alone                           *)

\* the positions around the comma-free pieces of s
Cuts(s) == {0, Len(s) + 1} \cup {i \in 1..Len(s) : s[i] = ","}

\* the piece that starts after cut a
Piece(s, a) ==
    LET b == CHOOSE c \in Cuts(s) : c > a /\ \A d \in Cuts(s) : d > a => c <= d
    IN SubSeq(s, a + 1, b - 1)

\* t without its leading and trailing blanks
Stripped(t) ==
    LET ink == {i \in 1..Len(t) : t[i] # " "}
    IN IF ink = {} THEN <<>>
       ELSE SubSeq(t, CHOOSE i \in ink : \A j \in ink : i <= j,
                      CHOOSE i \in ink : \A j \in ink : i >= j)

\* the pieces of s that are not blank, stripped, in their order in s
ConfiguredEntries(s) ==
    LET starts == {a \in Cuts(s) \ {Len(s) + 1} : Stripped(Piece(s, a)) # <<>>}
        nth(k) == CHOOSE a \in starts :
                      Cardinality({b \in starts : b < a}) = k - 1
    IN [k \in 1..Cardinality(starts) |-> Stripped(Piece(s, nth(k)))]

ExpectedRpcUrls(e) ==
    LET entries == IF e.SOLANA_RPC_URLS.set
                   THEN ConfiguredEntries(e.SOLANA_RPC_URLS.val)
                   ELSE <<>>
    IN IF entries # <<>> THEN entries
       ELSE IF e.SOLANA_RPC_URL.set /\ e.SOLANA_RPC_URL.val # <<>>
       THEN <<e.SOLANA_RPC_URL.val>>
       ELSE <<MainnetUrl>>

ResolutionOrder ==
    rpcUrls # <<>> => rpcUrls = ExpectedRpcUrls(env)

\* both variables set, a blank entry in the list: the list variable won
MultiValueWon ==
    /\ env.SOLANA_RPC_URLS = EnvSet(<<"a", ",", " ", ",", "b">>)
    /\ env.SOLANA_RPC_URL = EnvSet(<<"b">>)
    /\ rpcUrls = << <<"a">>, <<"b">> >>

(* C17: resolution always leaves at least one endpoint in the list, and     *)
(* every URL getNextRpcUrl has handed out is a non-empty entry of the list  *)

\* the operations that resolve the endpoint list
Resolves(r) ==
    \/ r.op \in {"getNextRpcUrl", "getRpcUrls", "getFreshConnection"}
    \/ (r.op = "getConnection" /\ ~r.hasUrl)

ResolutionNeverEmpty ==
    /\ Resolves(poolRet) => Len(rpcUrls) >= 1
    /\ currentRpcIndex \in 0..Len(rpcUrls)
    /\ \A k \in 1..Len(allocs) :
           /\ allocs[k] # UndefinedUrl
           /\ allocs[k] # <<>>
           /\ \E i \in 1..Len(rpcUrls) : allocs[k] = rpcUrls[i]

\* a comma-only list and an empty single URL: the default was handed out
FellBackToDefault ==
    /\ env.SOLANA_RPC_URLS = EnvSet(<<",", " ", ",">>)
    /\ env.SOLANA_RPC_URL = EnvSet(<<>>)
    /\ poolRet = [op |-> "getNextRpcUrl", url |-> MainnetUrl]

(* C16: once the endpoint list is resolved no step changes it, whatever is  *)
(* written to the environment afterwards, and every later getRpcUrls,       *)
(* getNextRpcUrl and checkAllRpcs call works on that list                   *)

ResolvedListIsFixed ==
    [][rpcUrls # <<>> =>
         /\ rpcUrls' = rpcUrls
         /\ poolCalls' # poolCalls =>
              /\ poolRet'.op = "getRpcUrls" => poolRet'.urls = rpcUrls
              /\ poolRet'.op = "getNextRpcUrl" =>
                     poolRet'.url = rpcUrls[currentRpcIndex + 1]
              /\ poolRet'.op = "checkAllRpcs" => health'.urls = rpcUrls]_vars

\* a health check started on a list that the environment of the moment
\* would not have produced
StaleListChecked ==
    /\ health.phase = "running"
    /\ health.urls # ExpectedRpcUrls(health.env)

(* C18: checkConnection settles by returning, never by throwing: the result *)
(* is healthy, with the slot and the version, exactly when getSlot and      *)
(* getVersion both succeeded, and otherwise unhealthy with a description of *)
(* the failure that came first                                              *)

\* the answer that call c (1 getSlot, 2 getVersion) of endpoint i got
AnswerOf(i, c) ==
    health.inner[i][CHOOSE k \in 1..Len(health.inner[i]) :
                        health.inner[i][k].index = c]

CheckConnectionNeverThrows ==
    health.phase # "idle" =>
        \A i \in 1..Len(health.urls) :
            LET calls == health.inner[i]
                failed == {k \in 1..Len(calls) : ~calls[k].ok}
                bothOk == Len(calls) = 2 /\ failed = {}
                done == {k \in 1..Len(health.outer) : health.outer[k].index = i}
            IN /\ Cardinality(done) = IF failed # {} \/ bothOk THEN 1 ELSE 0
               /\ \A k \in done :
                    LET o == health.outer[k] IN
                    /\ o.ok
                    /\ o.value.healthy = bothOk
                    /\ bothOk =>
                         /\ o.value.slot = AnswerOf(i, 1).value
                         /\ o.value.version = AnswerOf(i, 2).value.core
                    /\ ~bothOk =>
                         LET first == calls[CHOOSE f \in failed :
                                                \A g \in failed : f <= g].value
                         IN o.value.error = IF first.isError THEN first.message
                                            ELSE "Unknown error"

\* getSlot answered, then getVersion rejected with something that is no Error
VersionCallFailed ==
    \E i \in 1..Len(health.urls), k \in 1..Len(health.outer) :
        /\ Len(health.inner[i]) = 2
        /\ health.inner[i][1].index = 1 /\ health.inner[i][1].ok
        /\ ~health.inner[i][2].ok
        /\ health.outer[k].index = i
        /\ ~health.outer[k].value.healthy
        /\ health.outer[k].value.error = "Unknown error"

(* C19: checkAllRpcs returns one result per configured endpoint, the i-th   *)
(* for the i-th endpoint, in whatever order the checks completed and        *)
(* whichever of them failed                                                 *)

ResultsInEndpointOrder ==
    (poolRet.op = "checkAllRpcs" /\ poolRet.kind # "pending") =>
        /\ poolRet.kind = "returned"
        /\ Len(poolRet.results) = Len(rpcUrls)
        /\ \A i \in 1..Len(rpcUrls) :
               /\ poolRet.results[i].url = rpcUrls[i]
               /\ poolRet.results[i].healthy =
                      (/\ Len(health.inner[i]) = 2
                       /\ \A k \in 1..2 : health.inner[i][k].ok)

\* the second endpoint's check completed first, and one of the two failed
SecondEndpointCameFirst ==
    /\ poolRet.op = "checkAllRpcs" /\ poolRet.kind = "returned"
    /\ Len(health.outer) = 2
    /\ health.outer[1].index = 2
    /\ rpcUrls[1] # rpcUrls[2]
    /\ poolRet.results[1].healthy # poolRet.results[2].healthy

(* C20: every GET and POST that getMetadata, getTransaction and inspect     *)
(* issue goes to the reference without its leading "blink:" (followed by    *)
(* the query string when getTransaction was given params), and to the       *)
(* reference itself when it does not start with "blink:"                    *)

\* whether the first six characters of s spell blink:
HasBlinkPrefix(s) ==
    /\ Len(s) >= 6
    /\ s[1] = "b" /\ s[2] = "l" /\ s[3] = "i" /\ s[4] = "n" /\ s[5] = "k"
    /\ s[6] = ":"

\* u is t, or t followed by a query string
TargetIs(u, t) ==
    /\ Len(u) >= Len(t)
    /\ \A k \in 1..Len(t) : u[k] = t[k]
    /\ Len(u) > Len(t) => u[Len(t) + 1] = "?"

PrefixStrippedBeforeFetch ==
    \A i \in LogIndexes :
        log[i].call \in {"GET", "POST"} =>
            LET ref == log[i].info.ref
                url == log[i].info.url
            IN IF HasBlinkPrefix(ref)
               THEN \E t \in {SubSeq(url, 1, k) : k \in 0..Len(url)} :
                        /\ <<"b", "l", "i", "n", "k", ":">> \o t = ref
                        /\ TargetIs(url, t)
               ELSE TargetIs(url, ref)

\* a describe GET for a prefixed reference, answered, and then a build POST
\* with params for a reference prefixed twice
PrefixedReferencesFetched ==
    /\ Len(log) = 2
    /\ log[1].call = "GET" /\ log[1].outcome = "ok"
    /\ HasBlinkPrefix(log[1].info.ref)
    /\ ~HasBlinkPrefix(log[1].info.url)
    /\ log[2].call = "POST"
    /\ HasBlinkPrefix(log[2].info.url)
    /\ log[2].info.url[Len(log[2].info.url)] = "1"

(* C21: the URL of the build POST is the action URL with params merged into *)
(* its query: each key of params occurs once, with the value from params,   *)
(* and every other key keeps the values it had; nothing else is added       *)

\* the values that the query of u gives to key k, in order
ValuesOf(u, k) ==
    LET named == SelectSeq(SearchParams(u), LAMBDA p : p.key = k)
    IN [i \in 1..Len(named) |-> named[i].value]

KeysOf(u) == {SearchParams(u)[i].key : i \in 1..Len(SearchParams(u))}

\* the reference without its leading blink:
ActionUrlOf(ref) ==
    IF HasBlinkPrefix(ref) THEN SubSeq(ref, 7, Len(ref)) ELSE ref

ParamsMergedIntoQuery ==
    \A i \in LogIndexes :
        (log[i].call = "POST" /\ log[i].info.params # <<>>) =>
            LET from == ActionUrlOf(log[i].info.ref)
                to == log[i].info.url
                params == log[i].info.params
                given == {params[j].key : j \in 1..Len(params)}
            IN /\ UrlBase(to) = UrlBase(from)
               /\ KeysOf(to) = KeysOf(from) \cup given
               /\ \A j \in 1..Len(params) :
                      ValuesOf(to, params[j].key) =
                          <<IF params[j].value.t = "number"
                            THEN NumberToString(params[j].value.n)
                            ELSE params[j].value.s>>
               /\ \A k \in KeysOf(from) \ given :
                      ValuesOf(to, k) = ValuesOf(from, k)

\* blink:http://x/a?x=1 with {k: 100} was POSTed to http://x/a?x=1&k=100
QueryKeptAndExtended ==
    \E i \in LogIndexes :
        /\ log[i].call = "POST"
        /\ log[i].info.ref =
               <<"b", "l", "i", "n", "k", ":", "h", "t", "t", "p", ":", "/", "/",
                 "x", "/", "a", "?", "x", "=", "1">>
        /\ log[i].info.url =
               <<"h", "t", "t", "p", ":", "/", "/", "x", "/", "a", "?", "x", "=",
                 "1", "&", "k", "=", "1", "0", "0">>

(* C22: a build POST answered with a status outside 200..299 makes          *)
(* getTransaction throw an error whose message holds the status and the     *)
(* text of the response body, or "Unknown error" when the body cannot be    *)
(* read; nothing is returned                                                *)

PartsOf(message) == {message[k] : k \in 1..Len(message)}

\* the last call issued by the executor
LastCall == log[Len(log)]

BuildFailureCarriesStatus ==
    (ret.op = "getTransaction" /\ op = "none" /\ LastCall.call = "POST") =>
        /\ LastCall.outcome = "not ok" <=>
               (ret.kind = "thrown" /\ ret.error = "status")
        /\ (ret.kind = "thrown" /\ ret.error = "status") =>
               /\ ret.response.status \notin 200..299
               /\ ToString(ret.response.status) \in PartsOf(ret.message)
               /\ ret.response.body.settled = "fulfilled" =>
                      ret.response.body.text \in PartsOf(ret.message)
               /\ ret.response.body.settled = "rejected" =>
                      "Unknown error" \in PartsOf(ret.message)
        /\ ret.kind = "returned" => LastCall.outcome = "ok"

\* a 422 whose body could not be read
UnreadableUnprocessable ==
    /\ ret.op = "getTransaction" /\ ret.kind = "thrown"
    /\ ret.error = "status"
    /\ ret.message = <<"Failed to get blink transaction: ", "422", " - ",
                       "Unknown error">>

(* C23: a describe GET answered with a status outside 200..299 makes        *)
(* getMetadata, and inspect with it, throw an error whose message holds the *)
(* status and the status text; inspect returns nothing then                 *)

DescribeFailureCarriesStatus ==
    (ret.op \in {"getMetadata", "inspect"} /\ op = "none") =>
        /\ LastCall.outcome = "not ok" <=>
               (ret.kind = "thrown" /\ ret.error = "status")
        /\ (ret.kind = "thrown" /\ ret.error = "status") =>
               /\ ret.response.status \notin 200..299
               /\ ToString(ret.response.status) \in PartsOf(ret.message)
               /\ ret.response.statusText \in PartsOf(ret.message)
        /\ ret.kind = "returned" => LastCall.outcome = "ok"

\* inspect ended on a 404
InspectNotFound ==
    /\ ret.op = "inspect" /\ ret.kind = "thrown"
    /\ ret.error = "status"
    /\ ret.message = <<"Failed to fetch blink metadata: ", "404", " ",
                       "Not Found">>

(* C24, as stated: a describe response with no links.actions makes inspect  *)
(* return exactly one action entry, with the top-level label and the        *)
(* reference without its blink: prefix                                      *)

InspectReturned == ret.op = "inspect" /\ ret.kind = "returned"

\* the reference inspect was last called with
InspectedRef == LastCall.info.ref

MainEntry ==
    [label |-> ret.value.metadata.label, href |-> ActionUrlOf(InspectedRef)]

OneEntryWithoutLinks ==
    (InspectReturned /\ Len(ret.value.metadata.actions) = 0) =>
        ret.value.actions = <<MainEntry>>

(* C24, amended: the single entry is there when the response has a          *)
(* non-empty top-level label; without a label the list is empty             *)

OneEntryForLabelWithoutLinks ==
    (InspectReturned /\ Len(ret.value.metadata.actions) = 0) =>
        IF ret.value.metadata.label # <<>>
        THEN ret.value.actions = <<MainEntry>>
        ELSE ret.value.actions = <<>>

\* inspect of a prefixed reference answered with a label and no links
PrefixedLabelOnlyInspected ==
    /\ InspectReturned
    /\ HasBlinkPrefix(InspectedRef)
    /\ ret.value.metadata.label = <<"L">>
    /\ Len(ret.value.actions) = 1

(* C25, as stated: inspect gives every linked action with a relative href   *)
(* the origin of the describing URL followed by that path, and every        *)
(* linked action with an absolute href its href unchanged                   *)

\* a relative reference as a path from the root
RootedPath(href) == IF href[1] = "/" THEN href ELSE <<"/">> \o href

ExpectedHref(url, href) ==
    IF ValidUrl(href) THEN href ELSE Origin(url) \o RootedPath(href)

LinkedHrefsResolved ==
    InspectReturned =>
        LET given == ret.value.metadata.actions
            main == Len(ret.value.actions) - Len(given)
        IN \A i \in 1..Len(given) :
               ret.value.actions[main + i].href =
                   ExpectedHref(ActionUrlOf(InspectedRef), given[i].href)

(* C26, as stated: every getMetadata call issues exactly one GET and every  *)
(* getTransaction call exactly one POST, whatever the response, and a       *)
(* failed dry-run or confirmation wait is the last call of its method call  *)

\* the executor method call number n issued call c at most once
AtMostOnce(n, c) == CountOf(n, c) <= 1

\* no call follows a dry-run or a confirmation wait in its method call
NeverReattempted ==
    \A i \in LogIndexes :
        (log[i].call \in {"simulateTransaction", "confirmTransaction"}) =>
            /\ AtMostOnce(log[i].inv, log[i].call)
            /\ \A j \in (i + 1)..Len(log) : log[j].inv # log[i].inv

\* the method the latest executor call is running or has run
CurrentMethod == IF op = "none" THEN ret.op ELSE op

ExactlyOneRequestPerCall ==
    /\ CurrentMethod \in {"getMetadata", "inspect"} => CountOf(inv, "GET") = 1
    /\ CurrentMethod = "getTransaction" => CountOf(inv, "POST") = 1
    /\ NeverReattempted

(* C26, amended: a getTransaction call given params and a URL that new URL  *)
(* rejects issues no POST; every other getTransaction call issues exactly   *)
(* one, every getMetadata call exactly one GET, no method call issues two,  *)
(* and a dry-run or confirmation wait is never followed by another call     *)

ThrewOnUrl ==
    op = "none" /\ ret.kind = "thrown" /\ ret.error = "URL"

OneRequestUnlessUrlRejected ==
    /\ CurrentMethod \in {"getMetadata", "inspect"} => CountOf(inv, "GET") = 1
    /\ CurrentMethod = "getTransaction" =>
           CountOf(inv, "POST") = (IF ThrewOnUrl THEN 0 ELSE 1)
    /\ \A n \in 1..inv : AtMostOnce(n, "GET") /\ AtMostOnce(n, "POST")
    /\ NeverReattempted

\* a build answered with an error status, after its one POST
ErrorStatusAnsweredOnce ==
    /\ ret.op = "getTransaction" /\ ret.kind = "thrown"
    /\ ret.error = "status"
    /\ CountOf(inv, "POST") = 1
    /\ Len(CallsOf(inv)) = 1

(* C27: whatever the interleaving of pool callers and health checks in      *)
(* flight, allocation number k overall, by getNextRpcUrl, getFreshConnection *)
(* or getConnection without a URL, is entry (k-1) mod N of the list, and    *)
(* the cursor stands at the number of allocations made, mod N               *)

CursorCountsAllocations ==
    /\ allocs = <<>> => currentRpcIndex = 0
    /\ allocs # <<>> =>
           /\ currentRpcIndex = Len(allocs) % Len(rpcUrls)
           /\ \A k \in 1..Len(allocs) :
                  allocs[k] = rpcUrls[((k - 1) % Len(rpcUrls)) + 1]
    /\ poolRet.op = "getNextRpcUrl" => poolRet.url = allocs[Len(allocs)]
    /\ poolRet.op = "getFreshConnection" =>
           poolRet.conn.rpcEndpoint = allocs[Len(allocs)]
    /\ (poolRet.op = "getConnection" /\ ~poolRet.hasUrl) =>
           poolRet.url = allocs[Len(allocs)]

\* three allocations over two endpoints while a health check has answers
\* outstanding and answers received
AllocatedDuringHealthCheck ==
    /\ health.phase = "running"
    /\ \E i \in 1..Len(health.inner) : health.inner[i] # <<>>
    /\ Len(rpcUrls) = 2
    /\ Len(allocs) = 3
    /\ allocs[3] = allocs[1] /\ allocs[2] # allocs[1]
    /\ poolRet.op = "getFreshConnection"

(* C28: a command run with --dry-run calls, after the build, simulate and   *)
(* nothing else of the executor: no signer, no broadcast, no confirmation   *)
(* wait, no success message; a command run without it calls signAndSend,    *)
(* never simulate, and prints the success message only once signAndSend has *)
(* returned the signature, which it prints with it                          *)

Printed(line) == \E k \in 1..Len(out) : out[k] = line

MethodsCalled == {log[i].op : i \in LogIndexes}

DryRunOnlySimulates ==
    mode = "cli" =>
        /\ dryRun =>
               /\ MethodsCalled \subseteq {"getTransaction", "simulate"}
               /\ \A i \in LogIndexes :
                      log[i].call \in
                          {"POST", "decodeTransaction", "simulateTransaction"}
               /\ ~Printed("success")
        /\ ~dryRun =>
               /\ MethodsCalled \subseteq {"getTransaction", "signAndSend"}
               /\ ~Printed("simulation")
        /\ cliPc \in {"simulate", "signAndSend"} =>
               \E i \in LogIndexes : log[i].call = "POST" /\ log[i].outcome = "ok"
        /\ Printed("success") =>
               /\ op = "none"
               /\ ret.op = "signAndSend" /\ ret.kind = "returned"
               /\ ret.value = signature /\ signature # "none"
               /\ out = <<"success", signature>>

\* a dry run that got to the end: built, decoded, simulated, printed
DryRunPrinted ==
    /\ mode = "cli" /\ dryRun /\ cliPc = "done"
    /\ Printed("simulation")
    /\ [i \in LogIndexes |-> log[i].call] =
           <<"POST", "decodeTransaction", "simulateTransaction">>

(* C29: a getConnection call without a URL moves the cursor on by one, mod  *)
(* N, and takes one allocation, also when it returns the cached connection; *)
(* a getConnection call with a URL leaves cursor and allocations alone      *)

GetConnectionStep ==
    poolCalls' = poolCalls + 1 /\ poolRet'.op = "getConnection"

CursorMovesWithoutUrl ==
    [][GetConnectionStep =>
          IF poolRet'.hasUrl
          THEN currentRpcIndex' = currentRpcIndex /\ allocs' = allocs
          ELSE /\ currentRpcIndex' = (currentRpcIndex + 1) % Len(rpcUrls')
               /\ Len(allocs') = Len(allocs) + 1
               /\ allocs'[Len(allocs')] = rpcUrls'[currentRpcIndex + 1]]_vars

\* the second of two calls without a URL returned the cached connection to
\* the first endpoint, and the cursor has gone round both endpoints
CachedReturnedCursorMoved ==
    /\ poolRet.op = "getConnection" /\ ~poolRet.hasUrl
    /\ poolCalls = 2 /\ connCount = 1
    /\ Len(rpcUrls) = 2 /\ Len(allocs) = 2
    /\ currentRpcIndex = 0
    /\ poolRet.conn.rpcEndpoint = rpcUrls[1]
    /\ poolRet.url = rpcUrls[2]

(* C30: a command started with --rpc U gives its executor a connection to   *)
(* U, whatever SOLANA_RPC_URLS and SOLANA_RPC_URL held before               *)

RpcOptionHonoured ==
    (mode = "cli" /\ Truthy(rpc) /\ connection # Null) =>
        connection.rpcEndpoint = rpc.val

====
